---- MODULE Spec2Model ----
(***************************************************************************)
(* A model of iodict.IODict: a dictionary whose records are files of one   *)
(* directory.  The file name is an encoding of the key, the payload is the *)
(* pickled value, and the extended attributes user.birthtime and user.key  *)
(* carry the insertion time and the original key.                          *)
(*                                                                         *)
(* Python objects.  A key is a record [t, v]: t is its type ("str" or      *)
(* "int") and v is what str(key) returns.  Byte strings are TLA+ strings:  *)
(* "u:" followed by the text for str.encode(), "p:" followed by type and   *)
(* text for pickle.dumps() of a key.  A digest is "H(" bytes ")", which is *)
(* injective: SHA3-224 is taken to be collision free.  A str never encodes *)
(* to the bytes of a pickle (a pickle starts with the byte 0x80, which no  *)
(* UTF-8 text does), hence the two different prefixes.                     *)
(*                                                                         *)
(* Platform.  os.getxattr exists on Linux only, where os.stat() has no     *)
(* st_birthtime: without the user.birthtime attribute the creation time of *)
(* a record is its st_ctime, which every write of the file sets.           *)
(***************************************************************************)
EXTENDS Integers, Sequences, FiniteSets, TLC

\* Bounds of the model.
MaxTime == 2

\* The keys of the callers: two texts, the empty text, and the integer 1,
\* whose str() is the text "1".  One run uses three of them.
KeyA == [t |-> "str", v |-> "a"]
KeyOne == [t |-> "str", v |-> "1"]
KeyEmpty == [t |-> "str", v |-> ""]
IntOne == [t |-> "int", v |-> "1"]
Keys == {KeyA, KeyOne, KeyEmpty, IntOne}
KeySets == {Keys \ {k} : k \in Keys}
Values == {"v1", "v2"}

\* The defaults handed to pop: none, a falsy one and a truthy one.
Defaults == {"None", "", "d"}

\* Python's None (as a value, and as "no key").
None == "None"
NoKey == [t |-> "none", v |-> ""]

VARIABLES
    used,       \* the keys the callers of this run use
    fs_xattr,   \* the filesystem of the store supports extended attributes
    _encoder,   \* self._encoder: "sha3" (_object_sha3_224) or "str"
    fs,         \* the directory self._db_path: file name -> file
    now,        \* the clock: time.time() and the filesystem's timestamps
    written,    \* history: live key -> the value of its last set
    created,    \* history: the live keys, in the order of their first write
    last,       \* the last call: operation, arguments, result, exception
    lock,       \* self._lock: "free", or the actor that holds it
    pc,         \* actor -> where it is in its call
    frame,      \* actor -> its call: arguments, local variables, result
    takers      \* history: <<path, actor>> for every pop that handed out the
                \* value at path since its last write

\* The variables of the actors that share the store step by step.
conc == <<lock, pc, frame, takers>>

vars == <<used, fs_xattr, _encoder, fs, now, written, created, last, conc>>

----------------------------------------------------------------------------
\* Python and OS primitives.

\* bool(key): an empty text and the integer 0 are falsy.
truthy(key) == IF key.t = "str" THEN key.v /= "" ELSE key.v /= "0"

\* str.encode() and bytes.decode().
str_encode(s) == "u:" \o s
bytes_decode(b) == SubSeq(b, 3, Len(b))

\* hashlib.sha3_224(b).hexdigest()
sha3_224_hexdigest(b) == "H(" \o b \o ")"

\* pickle.load(f) of what pickle.dump(value, f) wrote.
pickle_dump(value) == <<"pickle", value>>
pickle_load(data) == data[2]

\* struct.pack(">d", t) and struct.unpack(">d", b)[0].
struct_pack(t) == <<"be64", t>>
struct_unpack(b) == b[2]

\* A key as iteration hands it out: always a text.
text(s) == [t |-> "str", v |-> s]

Range(s) == {s[i] : i \in 1..Len(s)}

----------------------------------------------------------------------------
\* The filesystem.  A file is [data, xattrs, st_ctime]; xattrs is a function
\* from attribute names to bytes.

NoXattrs == [n \in {} |-> ""]

\* The st_ctime a change at time t leaves on a file with attributes xattrs.
\* It is tracked only where it is read: on a file that has no readable
\* user.birthtime.
ctime_at(xattrs, t) ==
    IF fs_xattr /\ "user.birthtime" \in DOMAIN xattrs THEN 0 ELSE t

\* os.setxattr(path, name, value) at time t (it changes the inode).
os_setxattr(file, name, value, t) ==
    [file EXCEPT !.xattrs = (name :> value) @@ file.xattrs,
                 !.st_ctime = ctime_at((name :> value) @@ file.xattrs, t)]

\* open(path, "wb") at time t: the file is created, or truncated to no
\* data at all; an existing file keeps its attributes.
open_truncate(dir, path, t) ==
    IF path \in DOMAIN dir
    THEN [dir[path] EXCEPT !.data = <<>>,
                           !.st_ctime = ctime_at(dir[path].xattrs, t)]
    ELSE [data |-> <<>>, xattrs |-> NoXattrs, st_ctime |-> ctime_at(NoXattrs, t)]

\* pickle.dump(value, f) and the close of f at time t.
file_dump(file, value, t) ==
    [file EXCEPT !.data = pickle_dump(value),
                 !.st_ctime = ctime_at(file.xattrs, t)]

\* open(path, "wb") followed by pickle.dump(value, f), at time t.
open_wb(dir, path, value, t) == file_dump(open_truncate(dir, path, t), value, t)

\* os.unlink(path)
os_unlink(dir, path) == [p \in DOMAIN dir \ {path} |-> dir[p]]

----------------------------------------------------------------------------
\* Module functions.

\* The creation time of a record: the attribute, else st_ctime.
_get_create_time(file) ==
    IF fs_xattr /\ "user.birthtime" \in DOMAIN file.xattrs
    THEN struct_unpack(file.xattrs["user.birthtime"])
    ELSE file.st_ctime

\* The key of the record at path (an existing file): the attribute, else
\* the base name of the file.
_get_item_key(dir, path) ==
    IF fs_xattr /\ "user.key" \in DOMAIN dir[path].xattrs
    THEN text(bytes_decode(dir[path].xattrs["user.key"]))
    ELSE text(path)

\* The digest of a key: of its text, or of its pickle when it has no encode().
_object_sha3_224(obj) ==
    IF obj.t = "str"
    THEN sha3_224_hexdigest(str_encode(obj.v))
    ELSE sha3_224_hexdigest("p:" \o obj.t \o ":" \o obj.v)

\* A _setxattr that does not look for user.birthtime before it sets it.
_setxattr_restamps(file, key, t) ==
    IF ~fs_xattr
    THEN [file |-> file, exc |-> "none"]
    ELSE LET born == os_setxattr(file, "user.birthtime", struct_pack(t), t)
         IN  IF ~truthy(key)
             THEN [file |-> born, exc |-> "none"]
             ELSE IF key.t = "str"
                  THEN [file |-> os_setxattr(born, "user.key",
                                             str_encode(key.v), t),
                        exc |-> "none"]
                  ELSE [file |-> born, exc |-> "AttributeError"]

\* The first half of _setxattr at time t, with attribute support: the
\* birthtime is set if getxattr finds none.
setxattr_birthtime(file, t) ==
    IF "user.birthtime" \in DOMAIN file.xattrs
    THEN file
    ELSE os_setxattr(file, "user.birthtime", struct_pack(t), t)

\* The second half of _setxattr, with attribute support: key.encode() is
\* called on every truthy key.  The result is the file and the exception
\* that leaves the function ("none" if none).
setxattr_key(file, key, t) ==
    IF ~truthy(key)
    THEN [file |-> file, exc |-> "none"]
    ELSE IF key.t = "str"
         THEN [file |-> os_setxattr(file, "user.key", str_encode(key.v), t),
               exc |-> "none"]
         ELSE [file |-> file, exc |-> "AttributeError"]

\* _setxattr(path, key) at time t, on the file just written.  Without
\* attribute support getxattr and setxattr both raise OSError, which is
\* swallowed.
_setxattr(file, key, t) ==
    IF ~fs_xattr
    THEN [file |-> file, exc |-> "none"]
    ELSE setxattr_key(setxattr_birthtime(file, t), key, t)

----------------------------------------------------------------------------
\* IODict.  The lock is free between the calls of a single caller; each
\* operator is one whole call on the directory dir.

\* The base name of os.path.join(self._db_path, self._encoder(key)).
item_path(key) == IF _encoder = "sha3" THEN _object_sha3_224(key) ELSE key.v

\* open(path, "rb") and pickle.load(f): FileNotFoundError becomes KeyError,
\* and a file with no data makes pickle.load raise EOFError.
__getitem__(dir, key) ==
    IF item_path(key) \notin DOMAIN dir
    THEN [exc |-> "KeyError", value |-> None]
    ELSE IF dir[item_path(key)].data = <<>>
         THEN [exc |-> "EOFError", value |-> None]
         ELSE [exc |-> "none", value |-> pickle_load(dir[item_path(key)].data)]

__delitem__(dir, key) ==
    IF item_path(key) \in DOMAIN dir
    THEN [exc |-> "none", fs |-> os_unlink(dir, item_path(key))]
    ELSE [exc |-> "KeyError", fs |-> dir]

__setitem__(dir, key, value, t) ==
    LET path == item_path(key)
        done == _setxattr(open_wb(dir, path, value, t), key, t)
    IN  [exc |-> done.exc, fs |-> (path :> done.file) @@ dir]

----------------------------------------------------------------------------
\* Iteration.  os.scandir() lists the directory in an order of its own:
\* order is any sequence of the file names, each once.

ScanOrders(dir) ==
    {o \in [1..Cardinality(DOMAIN dir) -> DOMAIN dir] :
        \A i, j \in DOMAIN o : i /= j => o[i] /= o[j]}

\* The list items of __iter__ before it is sorted: (key, time, path).
scan_items(dir, order) ==
    [i \in 1..Len(order) |->
        <<_get_item_key(dir, order[i]), _get_create_time(dir[order[i]]),
          order[i]>>]

RemoveAt(s, i) == SubSeq(s, 1, i - 1) \o SubSeq(s, i + 1, Len(s))

\* A sort that is left out: the items stay in the order of the scan.
unsorted_items(items) == items

\* sorted(items, key=operator.itemgetter(1)): stable, ascending by time.
RECURSIVE sorted_items(_)
sorted_items(items) ==
    IF items = <<>>
    THEN <<>>
    ELSE LET i == CHOOSE i \in 1..Len(items) :
                      \A j \in 1..Len(items) :
                          \/ items[i][2] < items[j][2]
                          \/ items[i][2] = items[j][2] /\ i <= j
         IN  <<items[i]>> \o sorted_items(RemoveAt(items, i))

\* list(self.__iter__()): with nothing deleted meanwhile every file exists
\* when its key is yielded.
__iter__(dir, order) ==
    LET items == sorted_items(scan_items(dir, order))
    IN  [i \in 1..Len(items) |-> items[i][1]]

\* __len__
__len__(dir, order) == Len(__iter__(dir, order))

\* The loop of clear() over the sorted items: an item whose file is gone is
\* skipped by the generator, the key of any other is handed to __delitem__,
\* whose KeyError ends clear().
RECURSIVE clear_loop(_, _)
clear_loop(dir, items) ==
    IF items = <<>>
    THEN [exc |-> "none", fs |-> dir]
    ELSE IF Head(items)[3] \notin DOMAIN dir
         THEN clear_loop(dir, Tail(items))
         ELSE LET del == __delitem__(dir, Head(items)[1])
              IN  IF del.exc /= "none"
                  THEN del
                  ELSE clear_loop(del.fs, Tail(items))

clear(dir, order) == clear_loop(dir, sorted_items(scan_items(dir, order)))

\* bool(value) of a value or default: None and the empty text (which stands
\* for 0, False and every empty container) are falsy.
bool(value) == value /= None /\ value /= ""

\* A pop that hands out every default that was given, truthy or not.
pop_result_any_default(got, del, default) ==
    IF "KeyError" \in {got.exc, del.exc}
    THEN IF default /= None
         THEN [exc |-> "none", value |-> default]
         ELSE [exc |-> "KeyError", value |-> None]
    ELSE [exc |-> got.exc, value |-> got.value]

\* A pop whose return value survives a KeyError of the delete.
pop_result_keeps_value(got, del, default) ==
    IF got.exc = "KeyError"
    THEN IF bool(default)
         THEN [exc |-> "none", value |-> default]
         ELSE [exc |-> "KeyError", value |-> None]
    ELSE [exc |-> got.exc, value |-> got.value]

\* What pop(key, default) returns or raises, from the outcomes of its
\* __getitem__ (got) and of the __delitem__ in its finally clause (del): a
\* KeyError of __delitem__ replaces the value about to be returned (or the
\* exception on its way), and a KeyError of either is answered by the
\* default if that is truthy.  Any other exception of __getitem__ leaves.
pop_result(got, del, default) ==
    IF "KeyError" \in {got.exc, del.exc}
    THEN IF bool(default)
         THEN [exc |-> "none", value |-> default]
         ELSE [exc |-> "KeyError", value |-> None]
    ELSE [exc |-> got.exc, value |-> got.value]

\* pop(key, default) with no other caller at work.
pop(dir, key, default) ==
    LET got == __getitem__(dir, key)
        del == __delitem__(dir, key)
    IN  [fs |-> del.fs] @@ pop_result(got, del, default)

\* popitem(): pop of the key that __iter__(index=0) yields; the generator
\* yields nothing on an empty directory (StopIteration).  A KeyError of pop
\* is not caught here.
popitem(dir, order) ==
    LET items == sorted_items(scan_items(dir, order))
    IN  IF items = <<>>
        THEN [exc |-> "KeyError", value |-> None, fs |-> dir, key |-> NoKey]
        ELSE [key |-> items[1][1]] @@ pop(dir, items[1][1], None)

\* BaseClass.__exit__: the value returned to the with statement, which
\* swallows the active exception exactly when it is true.
BaseClass__exit__(exc_active) == IF exc_active THEN FALSE ELSE TRUE

\* IODict.__exit__: clear(), whose exception the return in the finally
\* clause discards.
__exit__(dir, order, exc_active) ==
    [fs |-> clear(dir, order).fs, suppress |-> BaseClass__exit__(exc_active)]

----------------------------------------------------------------------------
\* The state machine: one caller, one call per step.

\* The keys a caller may use.  Without attribute support the file name is
\* str(key) itself and has to be a file name: the empty text is none.
InputKeys == IF _encoder = "str" THEN {k \in used : k.v /= ""} ELSE used

\* What a call leaves in last: the operation, its key and value arguments,
\* the value returned (ret), the exception raised (exc), the keys yielded
\* (out), the length returned (count), what __exit__ returned (suppress).
NoCall ==
    [op |-> "init", key |-> NoKey, value |-> None, ret |-> None,
     exc |-> "none", out |-> <<>>, count |-> 0, suppress |-> FALSE]

\* The history.  A key is live from its set to its removal: by del of the
\* key, or by clear, popitem or the end of the with block taking its file.
Forget(keys) ==
    /\ written' = [k \in DOMAIN written \ keys |-> written[k]]
    /\ created' = SelectSeq(created, LAMBDA k : k \notin keys)

Gone(dir) == {k \in DOMAIN written : item_path(k) \notin DOMAIN dir}

EmptyDir == [p \in {} |-> ""]

\* The actors that share one store, and the call of an actor that has made
\* none: its operation and arguments, the outcome of the __getitem__ inside
\* pop (got), the entries of os.scandir not yet looked at (ents), the list
\* items, the path of the item whose key was yielded last (path), the keys
\* yielded (out), the value returned (ret) and the exception raised (exc).
Actors == {"p", "q"}
NoFrame ==
    [op |-> "none", key |-> NoKey, value |-> None,
     got |-> [exc |-> "none", value |-> None],
     ents |-> <<>>, items |-> <<>>, path |-> "", out |-> <<>>,
     ret |-> None, exc |-> "none"]

\* IODict.__init__ on an empty directory: the probe of os.listxattr picks
\* the encoder.
Init ==
    /\ used \in KeySets
    /\ fs_xattr \in BOOLEAN
    /\ _encoder = IF fs_xattr THEN "sha3" ELSE "str"
    /\ fs = EmptyDir
    /\ now = 0
    /\ written = EmptyDir
    /\ created = <<>>
    /\ last = NoCall
    /\ lock = "free"
    /\ pc = [a \in Actors |-> "idle"]
    /\ frame = [a \in Actors |-> NoFrame]
    /\ takers = {}

\* d[key] = value, while the clock moves on by tick.
SetItem(key, value, tick) ==
    /\ now + tick <= MaxTime
    /\ now' = now + tick
    /\ LET r == __setitem__(fs, key, value, now + tick)
       IN  /\ fs' = r.fs
           /\ last' = [NoCall EXCEPT !.op = "set", !.key = key,
                                        !.value = value, !.exc = r.exc]
    /\ written' = (key :> value) @@ written
    /\ created' = IF key \in DOMAIN written THEN created
                  ELSE Append(created, key)
    /\ UNCHANGED <<conc, used, fs_xattr, _encoder>>

\* d[key]
GetItem(key) ==
    /\ LET r == __getitem__(fs, key)
       IN  last' = [NoCall EXCEPT !.op = "get", !.key = key,
                                    !.ret = r.value, !.exc = r.exc]
    /\ UNCHANGED <<conc, used, fs_xattr, _encoder, fs, now, written, created>>

\* del d[key]
DelItem(key) ==
    /\ LET r == __delitem__(fs, key)
       IN  /\ fs' = r.fs
           /\ last' = [NoCall EXCEPT !.op = "del", !.key = key,
                                        !.exc = r.exc]
    /\ Forget({key})
    /\ UNCHANGED <<conc, used, fs_xattr, _encoder, now>>

\* list(d)
Iterate(order) ==
    /\ last' = [NoCall EXCEPT !.op = "iter", !.out = __iter__(fs, order)]
    /\ UNCHANGED <<conc, used, fs_xattr, _encoder, fs, now, written, created>>

\* len(d)
Length(order) ==
    /\ last' = [NoCall EXCEPT !.op = "len", !.count = __len__(fs, order)]
    /\ UNCHANGED <<conc, used, fs_xattr, _encoder, fs, now, written, created>>

\* d.clear()
Clear(order) ==
    /\ LET r == clear(fs, order)
       IN  /\ fs' = r.fs
           /\ last' = [NoCall EXCEPT !.op = "clear", !.exc = r.exc]
           /\ Forget(Gone(r.fs))
    /\ UNCHANGED <<conc, used, fs_xattr, _encoder, now>>

\* d.popitem()
PopItem(order) ==
    /\ LET r == popitem(fs, order)
       IN  /\ fs' = r.fs
           /\ last' = [NoCall EXCEPT !.op = "popitem", !.key = r.key,
                                        !.ret = r.value, !.exc = r.exc]
           /\ Forget(Gone(r.fs))
    /\ UNCHANGED <<conc, used, fs_xattr, _encoder, now>>

\* The end of "with d:", with or without an exception of the body active.
Exit(order, exc_active) ==
    /\ LET r == __exit__(fs, order, exc_active)
       IN  /\ fs' = r.fs
           /\ last' = [NoCall EXCEPT
                         !.op = "exit", !.suppress = r.suppress,
                         !.exc = IF exc_active /\ ~r.suppress
                                 THEN "BodyError" ELSE "none"]
           /\ Forget(Gone(r.fs))
    /\ UNCHANGED <<conc, used, fs_xattr, _encoder, now>>

Next ==
    \/ \E key \in InputKeys, value \in Values, tick \in {0, 1} :
           SetItem(key, value, tick)
    \/ \E key \in InputKeys : GetItem(key)
    \/ \E key \in InputKeys : DelItem(key)
    \/ \E order \in ScanOrders(fs) : Iterate(order)
    \/ \E order \in ScanOrders(fs) : Length(order)
    \/ \E order \in ScanOrders(fs) : Clear(order)
    \/ \E order \in ScanOrders(fs) : PopItem(order)
    \/ \E order \in ScanOrders(fs), exc_active \in BOOLEAN :
           Exit(order, exc_active)

Spec == Init /\ [][Next]_vars

----------------------------------------------------------------------------
\* The calls with a default, of one caller: pop and setdefault, next to the
\* set and get that show what they did.

\* setdefault(key, default): __setitem__(key, default), then return default;
\* an exception of __setitem__ leaves before anything is returned.
setdefault(dir, key, default, t) ==
    LET r == __setitem__(dir, key, default, t)
    IN  [exc |-> r.exc, fs |-> r.fs,
         value |-> IF r.exc = "none" THEN default ELSE None]

\* d.pop(key, default); default None is a call with no default.
Pop(key, default) ==
    /\ LET r == pop(fs, key, default)
       IN  /\ fs' = r.fs
           /\ last' = [NoCall EXCEPT !.op = "pop", !.key = key,
                                        !.value = default, !.ret = r.value,
                                        !.exc = r.exc]
           /\ Forget(Gone(r.fs))
    /\ UNCHANGED <<conc, used, fs_xattr, _encoder, now>>

\* d.setdefault(key, default), while the clock moves on by tick.
SetDefault(key, default, tick) ==
    /\ now + tick <= MaxTime
    /\ now' = now + tick
    /\ LET r == setdefault(fs, key, default, now + tick)
       IN  /\ fs' = r.fs
           /\ last' = [NoCall EXCEPT !.op = "setdefault", !.key = key,
                                        !.value = default, !.ret = r.value,
                                        !.exc = r.exc]
    /\ written' = (key :> default) @@ written
    /\ created' = IF key \in DOMAIN written THEN created
                  ELSE Append(created, key)
    /\ UNCHANGED <<conc, used, fs_xattr, _encoder>>

NextCalls ==
    \/ \E key \in InputKeys, value \in Values, tick \in {0, 1} :
           SetItem(key, value, tick)
    \/ \E key \in InputKeys : GetItem(key)
    \/ \E key \in InputKeys, default \in Defaults : Pop(key, default)
    \/ \E key \in InputKeys, default \in Values \cup {None}, tick \in {0, 1} :
           SetDefault(key, default, tick)

SpecCalls == Init /\ [][NextCalls]_vars

----------------------------------------------------------------------------
\* Several actors on one store.  A call is a sequence of steps, one system
\* call (or one statement under the lock) each; the steps of the actors
\* interleave.  All actors hold the same lock object.

\* A lock that the actors do not share: each enters at once.
lock_not_shared(l) == TRUE

\* "with self._lock:" enters when the lock is free.
can_acquire(l) == l = "free"

\* A with statement that leaves the lock held.
lock_kept(l, exc) == l

\* A with statement that releases only when no exception leaves its body.
lock_release_on_success(l, exc) == IF exc = "none" THEN "free" ELSE l

\* The end of "with self._lock:": the lock is released, whether or not an
\* exception leaves the body.
lock_release(l, exc) == "free"

\* An iteration that does not look again before it yields.
path_assumed(dir, path) == TRUE

\* os.path.exists(path)
path_exists(dir, path) == path \in DOMAIN dir

\* The variables no step of a shared store changes.
single == <<used, fs_xattr, _encoder, written, created, last>>

Goto(a, label, f) ==
    /\ pc' = [pc EXCEPT ![a] = label]
    /\ frame' = [frame EXCEPT ![a] = f]

\* The labels at which a call waits for the lock, and where it is then.
Inside(label) ==
    CASE label = "get_lock" -> "get_read"
      [] label = "set_lock" -> "set_open"
      [] label = "del_lock" -> "del_unlink"
Waiting == {"get_lock", "set_lock", "del_lock"}
Critical == {"get_read", "set_open", "set_dump", "set_birth", "set_key",
             "del_unlink"}

\* Where a call begins: __getitem__ (get, pop), __setitem__, __delitem__,
\* or the scan of __iter__ (iteration, clear, popitem).
Entry(op) ==
    CASE op \in {"get", "pop"} -> "get_lock"
      [] op = "set" -> "set_lock"
      [] op = "del" -> "del_lock"
      [] op \in {"iter", "clear", "popitem"} -> "scan"

\* Actor a calls op with key and value (the default, for pop), while the
\* clock moves on by tick.
Call(a, op, key, value, tick) ==
    /\ pc[a] \in {"idle", "done"}
    /\ now + tick <= MaxTime
    /\ now' = now + tick
    /\ Goto(a, Entry(op),
            [NoFrame EXCEPT !.op = op, !.key = key, !.value = value])
    /\ UNCHANGED <<single, fs, lock, takers>>

\* with self._lock: the actor enters.
Acquire(a) ==
    /\ pc[a] \in Waiting
    /\ can_acquire(lock)
    /\ lock' = a
    /\ pc' = [pc EXCEPT ![a] = Inside(pc[a])]
    /\ UNCHANGED <<single, fs, now, frame, takers>>

\* __getitem__ under the lock: open, pickle.load, and the end of the with
\* statement.  Inside pop the finally clause goes on to __delitem__.
GetRead(a) ==
    /\ pc[a] = "get_read"
    /\ LET f == frame[a]
           r == __getitem__(fs, f.key)
       IN  /\ lock' = lock_release(lock, r.exc)
           /\ IF f.op = "get"
              THEN Goto(a, "done", [f EXCEPT !.ret = r.value, !.exc = r.exc])
              ELSE Goto(a, "del_lock", [f EXCEPT !.got = r])
    /\ UNCHANGED <<single, fs, now, takers>>

\* __delitem__ under the lock: os.unlink and the end of the with statement.
\* It ends del, it ends pop (and the pop of popitem) with what pop returns
\* or raises, and clear goes on with its loop unless KeyError was raised.
DelUnlink(a) ==
    /\ pc[a] = "del_unlink"
    /\ LET f == frame[a]
           r == __delitem__(fs, f.key)
           res == pop_result(f.got, r, f.value)
       IN  /\ fs' = r.fs
           /\ lock' = lock_release(lock, r.exc)
           /\ IF f.op = "del"
              THEN Goto(a, "done", [f EXCEPT !.exc = r.exc])
              ELSE IF f.op = "clear"
                   THEN IF r.exc = "none"
                        THEN Goto(a, "yield", f)
                        ELSE Goto(a, "done", [f EXCEPT !.exc = r.exc])
                   ELSE Goto(a, "done",
                             [f EXCEPT !.ret = res.value, !.exc = res.exc])
           /\ takers' =
                IF /\ f.op \in {"pop", "popitem"}
                   /\ res.exc = "none"
                   /\ f.got.exc = "none"
                   /\ res.value = f.got.value
                THEN takers \cup {<<item_path(f.key), a>>}
                ELSE takers
    /\ UNCHANGED <<single, now>>

\* __setitem__ under the lock, first step: open(path, "wb").
SetOpen(a) ==
    /\ pc[a] = "set_open"
    /\ LET path == item_path(frame[a].key)
       IN  fs' = (path :> open_truncate(fs, path, now)) @@ fs
    /\ pc' = [pc EXCEPT ![a] = "set_dump"]
    /\ UNCHANGED <<single, now, lock, frame, takers>>

\* pickle.dump(value, f) and the close of the file.  What is written to a
\* file that was unlinked meanwhile is lost.
SetDump(a) ==
    /\ pc[a] = "set_dump"
    /\ LET path == item_path(frame[a].key)
       IN  /\ fs' = IF path \in DOMAIN fs
                    THEN (path :> file_dump(fs[path], frame[a].value, now)) @@ fs
                    ELSE fs
           /\ takers' = {t \in takers : t[1] /= path}
    /\ pc' = [pc EXCEPT ![a] = "set_birth"]
    /\ UNCHANGED <<single, now, lock, frame>>

\* _setxattr, first half.  Without attribute support, or on a file that is
\* gone, getxattr and setxattr raise OSError, _setxattr returns and the with
\* statement of __setitem__ ends.
SetBirth(a) ==
    /\ pc[a] = "set_birth"
    /\ LET path == item_path(frame[a].key)
       IN  IF fs_xattr /\ path \in DOMAIN fs
           THEN /\ fs' = (path :> setxattr_birthtime(fs[path], now)) @@ fs
                /\ pc' = [pc EXCEPT ![a] = "set_key"]
                /\ UNCHANGED <<lock, frame>>
           ELSE /\ lock' = lock_release(lock, "none")
                /\ Goto(a, "done", frame[a])
                /\ UNCHANGED fs
    /\ UNCHANGED <<single, now, takers>>

\* _setxattr, second half, and the end of the with statement of __setitem__.
SetKey(a) ==
    /\ pc[a] = "set_key"
    /\ LET f == frame[a]
           path == item_path(f.key)
           r == IF path \in DOMAIN fs
                THEN setxattr_key(fs[path], f.key, now)
                ELSE [exc |-> IF ~truthy(f.key) THEN "none"
                              ELSE IF f.key.t = "str"
                                   THEN "FileNotFoundError"
                                   ELSE "AttributeError"]
       IN  /\ fs' = IF path \in DOMAIN fs THEN (path :> r.file) @@ fs ELSE fs
           /\ lock' = lock_release(lock, r.exc)
           /\ Goto(a, "done", [f EXCEPT !.exc = r.exc])
    /\ UNCHANGED <<single, now, takers>>

\* KeyError("popitem(): dictionary is empty")
EmptyStore == "KeyError(popitem(): dictionary is empty)"

\* __iter__, no lock held: os.scandir lists the directory as it is now.
Scan(a) ==
    /\ pc[a] = "scan"
    /\ \E order \in ScanOrders(fs) :
          Goto(a, IF order = <<>> THEN "yield" ELSE "inspect",
               [frame[a] EXCEPT !.ents = order])
    /\ UNCHANGED <<single, fs, now, lock, takers>>

\* The body of the scandir loop for one entry: an entry whose file is gone
\* is passed over (os.path.exists is false, or FileNotFoundError is caught),
\* any other adds (key, time, path) to items.  The system calls of one entry
\* are one step: a file deleted between two of them is passed over as one
\* deleted before the first.  After the last entry items is sorted.
inspect(dir, path, items) ==
    IF path \in DOMAIN dir
    THEN Append(items, <<_get_item_key(dir, path),
                         _get_create_time(dir[path]), path>>)
    ELSE items

Inspect(a) ==
    /\ pc[a] = "inspect"
    /\ LET f == frame[a]
           items == inspect(fs, Head(f.ents), f.items)
       IN  IF Tail(f.ents) = <<>>
           THEN Goto(a, "yield",
                     [f EXCEPT !.ents = <<>>, !.items = sorted_items(items)])
           ELSE Goto(a, "inspect",
                     [f EXCEPT !.ents = Tail(f.ents), !.items = items])
    /\ UNCHANGED <<single, fs, now, lock, takers>>

\* The yield of the next key, no lock held.  Full iteration looks at
\* os.path.exists before every yield and passes over what is gone; the
\* key goes to the caller, or to the __delitem__ of clear.  The indexed
\* iteration of popitem yields items[0] to pop if its file exists; if not it
\* makes a new generator that nobody iterates, and ends: with that, and
\* with no items, next() raises StopIteration and popitem its KeyError.
Yield(a) ==
    /\ pc[a] = "yield"
    /\ LET f == frame[a]
           it == Head(f.items)
       IN  IF f.items = <<>>
           THEN Goto(a, "done",
                     [f EXCEPT !.exc = IF f.op = "popitem" THEN EmptyStore
                                       ELSE "none"])
           ELSE IF ~path_exists(fs, it[3])
                THEN IF f.op = "popitem"
                     THEN Goto(a, "done", [f EXCEPT !.exc = EmptyStore])
                     ELSE Goto(a, "yield", [f EXCEPT !.items = Tail(f.items)])
                ELSE Goto(a, CASE f.op = "iter" -> "yield"
                               [] f.op = "clear" -> "del_lock"
                               [] f.op = "popitem" -> "get_lock",
                          [f EXCEPT !.key = it[1], !.path = it[3],
                                    !.out = Append(f.out, it[1]),
                                    !.items = Tail(f.items)])
    /\ UNCHANGED <<single, fs, now, lock, takers>>

\* A store that two actors share, to begin with: as one caller finds it,
\* with two keys in use.
KeyPairs == {{KeyA, KeyOne}, {KeyA, KeyEmpty}, {KeyA, IntOne}}
InitShared ==
    /\ used \in KeyPairs
    /\ fs_xattr \in BOOLEAN
    /\ _encoder = IF fs_xattr THEN "sha3" ELSE "str"
    /\ fs = EmptyDir
    /\ now = 0
    /\ written = EmptyDir
    /\ created = <<>>
    /\ last = NoCall
    /\ lock = "free"
    /\ pc = [a \in Actors |-> "idle"]
    /\ frame = [a \in Actors |-> NoFrame]
    /\ takers = {}

\* Two actors that get, set, delete and pop.
NextLocked ==
    \E a \in Actors :
        \/ \E op \in {"get", "del", "pop"}, key \in InputKeys :
               Call(a, op, key, None, 0)
        \/ \E key \in InputKeys, value \in Values : Call(a, "set", key, value, 0)
        \/ Acquire(a)
        \/ GetRead(a)
        \/ DelUnlink(a)
        \/ SetOpen(a)
        \/ SetDump(a)
        \/ SetBirth(a)
        \/ SetKey(a)

SpecLocked == InitShared /\ [][NextLocked]_vars

\* One actor that iterates, clears and pops the first record, and one
\* that sets and deletes meanwhile.
NextScans ==
    \/ \E op \in {"iter", "clear", "popitem"} : Call("p", op, NoKey, None, 0)
    \/ \E key \in InputKeys, value \in Values, tick \in {0, 1} :
           Call("q", "set", key, value, tick)
    \/ \E key \in InputKeys : Call("q", "del", key, None, 0)
    \/ \E a \in Actors :
           \/ Acquire(a)
           \/ GetRead(a)
           \/ DelUnlink(a)
           \/ SetOpen(a)
           \/ SetDump(a)
           \/ SetBirth(a)
           \/ SetKey(a)
           \/ Scan(a)
           \/ Inspect(a)
           \/ Yield(a)

SpecScans == InitShared /\ [][NextScans]_vars

\* The steps of actor a that need nothing but a itself: a system call
\* returns, a statement is executed.
Step(a) ==
    \/ GetRead(a)
    \/ DelUnlink(a)
    \/ SetOpen(a)
    \/ SetDump(a)
    \/ SetBirth(a)
    \/ SetKey(a)
    \/ Scan(a)
    \/ Inspect(a)
    \/ Yield(a)

\* Every actor that can go on does go on, and the lock is fair: an actor
\* that finds it free again and again gets it.  No actor has to call.
Fairness ==
    \A a \in Actors : WF_vars(Step(a)) /\ SF_vars(Acquire(a))

\* One actor that makes every kind of call that reads or removes, and one
\* that sets and deletes meanwhile.
NextOps ==
    \/ \E op \in {"iter", "clear", "popitem"} : Call("p", op, NoKey, None, 0)
    \/ \E op \in {"get", "pop"}, key \in InputKeys :
           Call("p", op, key, None, 0)
    \/ \E key \in InputKeys : Call("q", "set", key, "v1", 0)
    \/ \E key \in InputKeys : Call("q", "del", key, None, 0)
    \/ \E a \in Actors : Acquire(a) \/ Step(a)

FairOps == InitShared /\ [][NextOps]_vars /\ Fairness

----------------------------------------------------------------------------
\* Properties.

\* The record of a key as the caller addresses it, and of a yielded key.
Live(key) == item_path(key) \in DOMAIN fs
PathsOf(key) == {p \in DOMAIN fs : _get_item_key(fs, p) = key}
Pos(seq, x) == CHOOSE i \in 1..Len(seq) : seq[i] = x

\* C1: set(k, v) followed by get(k), with no operation on k in between,
\* returns v: a get of a key that the history holds as set and not removed
\* since returns the value of that set.
C1_RoundTrip ==
    (last.op = "get" /\ last.key \in DOMAIN written)
        => (last.exc = "none" /\ last.ret = written[last.key])

\* The round trip with nothing at all in between does hold in both modes.
C1_Immediate ==
    [][(last.op = "set" /\ last'.op = "get" /\ last'.key = last.key)
          => (last'.exc = "none" /\ last'.ret = last.value)]_vars

\* C2: get(k) of a key never written, or removed since, raises KeyError;
\* del of a key that has no record raises KeyError; both change nothing.
C2_NotFound ==
    [][/\ (last'.op = "get" /\ last'.key \notin DOMAIN written)
            => (last'.exc = "KeyError" /\ fs' = fs)
       /\ (last'.op = "del" /\ ~Live(last'.key))
            => (last'.exc = "KeyError" /\ fs' = fs)]_vars

\* C3: len() and the number of keys a full iteration yields both equal the
\* number of distinct keys set and not removed since, no key yielded twice.
C3_SizeIsLiveKeys ==
    /\ last.op = "len" => last.count = Cardinality(DOMAIN written)
    /\ last.op = "iter" =>
          /\ Len(last.out) = Cardinality(DOMAIN written)
          /\ Cardinality(Range(last.out)) = Len(last.out)

\* C4 as claimed: of two distinct keys, the one first written earlier is
\* yielded earlier.
C4_FirstWrittenFirst ==
    last.op = "iter" =>
        \A i, j \in 1..Len(created) :
            (i < j /\ created[i] \in Range(last.out)
                   /\ created[j] \in Range(last.out))
                => Pos(last.out, created[i]) < Pos(last.out, created[j])

\* C4 as amended: a full iteration yields the key of every record once, in
\* non-decreasing order of the creation time read for the record; records
\* whose creation times differ come smaller time first.
C4_SortedByCreateTime ==
    last.op = "iter" =>
        /\ Len(last.out) = Cardinality(DOMAIN fs)
        /\ \A p \in DOMAIN fs : _get_item_key(fs, p) \in Range(last.out)
        /\ \A i, j \in 1..Len(last.out) :
              i < j => \A p \in PathsOf(last.out[i]), q \in PathsOf(last.out[j]) :
                          _get_create_time(fs[p]) <= _get_create_time(fs[q])

\* A full iteration over three records that do not all have the same time.
C4_Witness ==
    /\ last.op = "iter"
    /\ Len(last.out) = 3
    /\ \E p \in PathsOf(last.out[1]), q \in PathsOf(last.out[3]) :
          _get_create_time(fs[p]) < _get_create_time(fs[q])

\* C5 as claimed: a set of a live key replaces the value and keeps the
\* creation time of its record.
C5_CreateTimeKept ==
    [][(last'.op = "set" /\ last'.key \in DOMAIN written
                           /\ Live(last'.key))
          => /\ __getitem__(fs', last'.key).value = last'.value
             /\ _get_create_time(fs'[item_path(last'.key)])
                    = _get_create_time(fs[item_path(last'.key)])]_vars

\* C5 as amended: with attribute support no call changes the creation time
\* of a record that it leaves in place, and a set of a live key replaces the
\* value of its record.
C5_BirthtimeKept ==
    [][fs_xattr =>
          /\ \A p \in DOMAIN fs \cap DOMAIN fs' :
                _get_create_time(fs'[p]) = _get_create_time(fs[p])
          /\ (last'.op = "set" /\ last'.key \in DOMAIN written)
                => __getitem__(fs', last'.key).value = last'.value]_vars

\* A set that has overwritten an older record: its creation time is earlier
\* than the time of the set.
C5_Witness ==
    /\ fs_xattr
    /\ last.op = "set"
    /\ last.value /= "v1"
    /\ _get_create_time(fs[item_path(last.key)]) < now

\* C6: clear() raises nothing and leaves no record (so that len() is 0 and
\* every get raises KeyError).
C6_ClearEmpties ==
    last.op = "clear" =>
        /\ last.exc = "none"
        /\ DOMAIN fs = {}
        /\ \A k \in Keys : __getitem__(fs, k).exc = "KeyError"

\* C7: popitem() on an empty store raises KeyError and changes nothing; on
\* any other it returns the value of a record of the earliest creation time
\* and removes that record and no other.
C7_PopFirst ==
    [][last'.op = "popitem" =>
          IF DOMAIN fs = {}
          THEN last'.exc = "KeyError" /\ fs' = fs
          ELSE /\ last'.exc = "none"
               /\ \E p \in DOMAIN fs :
                     /\ \A q \in DOMAIN fs :
                           _get_create_time(fs[p]) <= _get_create_time(fs[q])
                     /\ last'.ret = pickle_load(fs[p].data)
                     /\ fs' = os_unlink(fs, p)]_vars

\* C8: the end of the with block leaves no record, and no exception leaves
\* it, whether or not one was active.
C8_ExitClean ==
    last.op = "exit" => (DOMAIN fs = {} /\ last.exc = "none")

\* C9: set raises nothing, for a text and for any other key, and with
\* attribute support the key read back from the record of a truthy key is
\* the key that was set.
C9_SetNeverRaises ==
    last.op = "set" =>
        /\ last.exc = "none"
        /\ (fs_xattr /\ truthy(last.key))
              => _get_item_key(fs, item_path(last.key)) = last.key

\* C10: set(k1, v) and del of k1 leave what get(k2) answers and the creation
\* time of the record of k2 as they were, for every other key k2.
C10_OtherKeysUntouched ==
    [][last'.op \in {"set", "del"} =>
          \A k2 \in Keys \ {last'.key} :
              /\ __getitem__(fs', k2) = __getitem__(fs, k2)
              /\ item_path(k2) \in DOMAIN fs =>
                    _get_create_time(fs'[item_path(k2)])
                        = _get_create_time(fs[item_path(k2)])]_vars

\* C11: pop(k, default) of a key that has no record leaves the directory as
\* it is; it returns the default if that is truthy and raises KeyError if
\* there is none or it is falsy.
C11_PopDefault ==
    [][(last'.op = "pop" /\ ~Live(last'.key))
          => /\ fs' = fs
             /\ IF bool(last'.value)
                THEN last'.exc = "none" /\ last'.ret = last'.value
                ELSE last'.exc = "KeyError"]_vars

\* A pop with a falsy default that raised KeyError, on a store that holds
\* a record of another key.
C11_Witness ==
    /\ last.op = "pop"
    /\ DOMAIN fs /= {}
    /\ last.value = ""
    /\ last.exc = "KeyError"

\* C12: setdefault(k, d) raises nothing and returns d, get(k) then returns
\* d, and the creation time of a record that k had before is unchanged.
C12_SetDefault ==
    [][last'.op = "setdefault"
          => /\ last'.exc = "none"
             /\ last'.ret = last'.value
             /\ __getitem__(fs', last'.key)
                   = [exc |-> "none", value |-> last'.value]
             /\ Live(last'.key)
                   => _get_create_time(fs'[item_path(last'.key)])
                        = _get_create_time(fs[item_path(last'.key)])]_vars

\* C13: at most one actor is inside a critical section of get, set or
\* delete, and it holds the lock; a get never reads a truncated record: it
\* returns a complete value that was set, or raises KeyError.
C13_MutualExclusion ==
    /\ Cardinality({a \in Actors : pc[a] \in Critical}) <= 1
    /\ \A a \in Actors :
          /\ pc[a] \in Critical => lock = a
          /\ (pc[a] = "get_read" /\ Live(frame[a].key))
                => fs[item_path(frame[a].key)].data /= <<>>
          /\ (frame[a].op = "get" /\ pc[a] = "done")
                => \/ frame[a].exc = "KeyError"
                   \/ frame[a].exc = "none" /\ frame[a].ret \in Values

\* A get waits for the lock while a set of the same key has truncated the
\* record and not yet written it.
C13_Witness ==
    \E a, b \in Actors :
        /\ frame[a].op = "get" /\ pc[a] = "get_lock"
        /\ frame[b].op = "set" /\ pc[b] = "set_dump"
        /\ frame[b].key = frame[a].key
        /\ fs[item_path(frame[a].key)].data = <<>>

\* C14: when the record that clear is about to delete was removed by another
\* actor since the scan, clear raises nothing and goes on with its loop.
C14_ClearTolerant ==
    [][\A a \in Actors :
          (/\ frame[a].op = "clear"
           /\ pc[a] = "del_unlink"
           /\ pc'[a] /= "del_unlink"
           /\ frame[a].path \notin DOMAIN fs)
              => (frame'[a].exc = "none" /\ pc'[a] = "yield")]_vars

\* C15: a full iteration raises nothing; an entry whose file is gone when it
\* is inspected adds no item, an item whose file is gone at the check before
\* its yield is passed over, and the file of every key that is yielded
\* exists at that check.
C15_IterationSurvives ==
    [][\A a \in Actors :
          (frame[a].op = "iter" /\ frame'[a].op = "iter") =>
              /\ frame'[a].exc = "none"
              /\ (pc[a] = "inspect" /\ pc'[a] \in {"inspect", "yield"}
                    /\ Head(frame[a].ents) \notin DOMAIN fs)
                    => Len(frame'[a].items) = Len(frame[a].items)
              /\ (pc[a] = "yield" /\ frame'[a] /= frame[a]
                    /\ frame[a].items /= <<>>
                    /\ Head(frame[a].items)[3] \notin DOMAIN fs)
                    => (frame'[a].out = frame[a].out /\ pc'[a] = "yield")
              /\ Len(frame'[a].out) > Len(frame[a].out)
                    => /\ frame'[a].path \in DOMAIN fs
                       /\ frame'[a].path = Head(frame[a].items)[3]]_vars

\* An iteration that has yielded a key and is about to pass over an item
\* whose file another actor has deleted since the scan.
C15_Witness ==
    \E a \in Actors :
        /\ frame[a].op = "iter" /\ pc[a] = "yield"
        /\ frame[a].out /= <<>>
        /\ frame[a].items /= <<>>
        /\ Head(frame[a].items)[3] \notin DOMAIN fs

\* C16: when the file of the first item of popitem's scan is gone and
\* another record that the scan found is still there, popitem does not
\* raise its "dictionary is empty" KeyError.
C16_PopFirstRetries ==
    [][\A a \in Actors :
          (/\ frame[a].op = "popitem"
           /\ pc[a] = "yield"
           /\ pc'[a] /= "yield"
           /\ frame[a].items /= <<>>
           /\ Head(frame[a].items)[3] \notin DOMAIN fs
           /\ \E i \in 2..Len(frame[a].items) :
                 frame[a].items[i][3] \in DOMAIN fs)
              => frame'[a].exc /= EmptyStore]_vars

\* C17: pop does not hold the lock between its __getitem__ and its
\* __delitem__.
C17_LockFreeInsidePop ==
    \A a \in Actors :
        (frame[a].op = "pop" /\ pc[a] = "del_lock") => lock /= a

\* A pop that returned v1 although the set of v2 by the other actor, its
\* last call, is complete, and the key has no record.
C17_Witness ==
    \E a, b \in Actors :
        /\ frame[a].op = "pop" /\ pc[a] = "done"
        /\ frame[a].exc = "none" /\ frame[a].ret = "v1"
        /\ frame[b].op = "set" /\ pc[b] = "done"
        /\ frame[b].key = frame[a].key /\ frame[b].value = "v2"
        /\ ~Live(frame[a].key)

\* C18: an actor that is in no call, or waits for the lock, does not hold
\* it; and with the fairness above every call that was begun ends, by a
\* return or by an exception.
C18_Terminates ==
    /\ [](\A a \in Actors :
             pc[a] \in {"idle", "done"} \cup Waiting => lock /= a)
    /\ \A a \in Actors : (pc[a] \notin {"idle", "done"}) ~> (pc[a] = "done")

\* A popitem has ended with its KeyError because the first record of its
\* scan was deleted meanwhile, and the lock is free.
C18_Witness ==
    \E a \in Actors :
        /\ frame[a].op = "popitem" /\ pc[a] = "done"
        /\ frame[a].exc = EmptyStore
        /\ frame[a].items /= <<>>
        /\ lock = "free"

\* C19: with attribute support the key that an iteration yields is a key
\* the callers set, and it addresses the record it was read from.
C19_YieldsOriginalKey ==
    \A a \in Actors :
        (fs_xattr /\ frame[a].op = "iter" /\ frame[a].out /= <<>>)
            => /\ frame[a].key \in used
               /\ item_path(frame[a].key) = frame[a].path

\* C20: between two writes of a record pop hands its value to one actor at
\* most, and a pop without default returns the value it read or raises
\* KeyError.
C20_OneTaker ==
    /\ \A t1, t2 \in takers : t1[1] = t2[1] => t1 = t2
    /\ \A a \in Actors :
          (frame[a].op = "pop" /\ pc[a] = "done")
              => \/ frame[a].exc = "KeyError"
                 \/ /\ frame[a].exc = "none"
                    /\ frame[a].got.exc = "none"
                    /\ frame[a].ret = frame[a].got.value

\* Two pops of one key are done: one returned the value, and the other,
\* which had read the value too, raised KeyError.
C20_Witness ==
    \E a, b \in Actors :
        /\ a /= b
        /\ frame[a].op = "pop" /\ pc[a] = "done"
        /\ frame[b].op = "pop" /\ pc[b] = "done"
        /\ frame[a].key = frame[b].key
        /\ frame[a].exc = "none" /\ frame[a].ret \in Values
        /\ frame[b].got.exc = "none" /\ frame[b].exc = "KeyError"

----------------------------------------------------------------------------
\* What does hold of the failing properties above, and where they fail.
\* KeysDistinct fails only without attribute support, when the callers use
\* both 1 and "1": str() maps them to one file.  AllKeyed fails only with
\* attribute support, for the record of a falsy key (no user.key is written)
\* or of a key that is no text (key.encode() raises before it is written):
\* iteration hands out the file name of such a record in place of its key.

KeysDistinct ==
    \A k1, k2 \in InputKeys : k1 /= k2 => item_path(k1) /= item_path(k2)

AllKeyed ==
    fs_xattr => \A p \in DOMAIN fs : "user.key" \in DOMAIN fs[p].xattrs

RoundTripOfDistinctKeys == KeysDistinct => C1_RoundTrip

SizeOfDistinctKeys == KeysDistinct => C3_SizeIsLiveKeys

NotFoundOfDistinctKeys ==
    [][KeysDistinct =>
          /\ (last'.op = "get" /\ last'.key \notin DOMAIN written)
                => (last'.exc = "KeyError" /\ fs' = fs)
          /\ (last'.op = "del" /\ ~Live(last'.key))
                => (last'.exc = "KeyError" /\ fs' = fs)]_vars

DistinctKeysUntouched ==
    [][(KeysDistinct /\ last'.op \in {"set", "del"}) =>
          \A k2 \in InputKeys \ {last'.key} :
              /\ __getitem__(fs', k2) = __getitem__(fs, k2)
              /\ item_path(k2) \in DOMAIN fs =>
                    _get_create_time(fs'[item_path(k2)])
                        = _get_create_time(fs[item_path(k2)])]_vars

ClearOfKeyedRecords ==
    [][(last'.op \in {"clear", "exit"} /\ AllKeyed)
          => (DOMAIN fs' = {} /\ (last'.op = "clear" => last'.exc = "none"))]_vars

PopFirstOfKeyedRecords ==
    [][(last'.op = "popitem" /\ AllKeyed /\ DOMAIN fs /= {}) =>
          /\ last'.exc = "none"
          /\ \E p \in DOMAIN fs :
                /\ \A q \in DOMAIN fs :
                      _get_create_time(fs[p]) <= _get_create_time(fs[q])
                /\ last'.ret = pickle_load(fs[p].data)
                /\ fs' = os_unlink(fs, p)]_vars

====
